---- MODULE Spec2Model ----
(***************************************************************************)
(* Fayda ID card bot: generate_fayda_id (PDF -> QR payload -> record ->    *)
(* card) and its caller handle_document, in the two deployed variants      *)
(* src/fayda-bot-render/app.py ("render") and src/app.py ("root").         *)
(*                                                                         *)
(* Texts are sequences of one-character strings so that strip, replace,    *)
(* str() and the JSON parse are computed, not assumed.                     *)
(***************************************************************************)
EXTENDS Integers, Sequences, FiniteSets, TLC

(* ------------------------------ bounds -------------------------------- *)
\* number of handle_document / generate_fayda_id invocations in a behaviour
NumRuns == 2
\* largest number of keys in a payload object drawn by InitRecord
MaxPresent == 2
\* last second of the wall clock (datetime.now() at one-second resolution)
MaxClock == 2
\* number of distinct chats (requester ids)
NumUsers == 2
\* passes through the keep_alive loop that are counted
MaxPings == 3

Runs == 1..NumRuns
Users == 1..NumUsers

(* --------------------------- text helpers ----------------------------- *)
\* characters str.strip() removes
Whitespace == {" ", "\t", "\n"}

RECURSIVE LStrip(_)
LStrip(s) ==
    IF s = <<>> THEN s
    ELSE IF Head(s) \in Whitespace THEN LStrip(Tail(s)) ELSE s

RECURSIVE RStrip(_)
RStrip(s) ==
    IF s = <<>> THEN s
    ELSE IF s[Len(s)] \in Whitespace THEN RStrip(SubSeq(s, 1, Len(s) - 1)) ELSE s

\* str.strip()
Strip(s) == RStrip(LStrip(s))

\* s starts with the text p
StartsWith(s, p) == Len(s) >= Len(p) /\ SubSeq(s, 1, Len(p)) = p

\* str.replace(old, new): every non-overlapping occurrence, left to right
RECURSIVE Replace(_, _, _)
Replace(s, old, new) ==
    IF s = <<>> THEN s
    ELSE IF StartsWith(s, old)
         THEN new \o Replace(SubSeq(s, Len(old) + 1, Len(s)), old, new)
         ELSE <<Head(s)>> \o Replace(Tail(s), old, new)

DigitChars == <<"0", "1", "2", "3", "4", "5", "6", "7", "8", "9">>

\* decimal digits of a natural number
RECURSIVE Digits(_)
Digits(n) ==
    IF n < 10 THEN <<DigitChars[n + 1]>>
    ELSE Digits(n \div 10) \o <<DigitChars[(n % 10) + 1]>>

DigitValue(c) == CHOOSE i \in 0..9 : DigitChars[i + 1] = c

IsDigit(c) == \E i \in 1..10 : DigitChars[i] = c

\* separator-joined concatenation
RECURSIVE Join(_, _)
Join(parts, sep) ==
    IF parts = <<>> THEN <<>>
    ELSE IF Len(parts) = 1 THEN parts[1]
    ELSE parts[1] \o sep \o Join(Tail(parts), sep)

(* --------------------------- JSON values ------------------------------ *)
\* A parsed JSON value: t is its Python type; s the text of a str, n the
\* value of an int or bool, a the items of a list,
\* d the members of a dict (a function from key texts to values).
JNull == [t |-> "null", s |-> <<>>, n |-> 0, a |-> <<>>, d |-> <<>>]
JStr(s) == [t |-> "str", s |-> s, n |-> 0, a |-> <<>>, d |-> <<>>]
JNum(n) == [t |-> "num", s |-> <<>>, n |-> n, a |-> <<>>, d |-> <<>>]
JBool(b) == [t |-> "bool", s |-> <<>>, n |-> IF b THEN 1 ELSE 0, a |-> <<>>, d |-> <<>>]
JArr(a) == [t |-> "arr", s |-> <<>>, n |-> 0, a |-> a, d |-> <<>>]
JObj(d) == [t |-> "obj", s |-> <<>>, n |-> 0, a |-> <<>>, d |-> d]

\* Python truthiness, as tested by `or`
Truthy(v) ==
    CASE v.t = "null" -> FALSE
      [] v.t = "str" -> v.s # <<>>
      [] v.t = "num" -> v.n # 0
      [] v.t = "bool" -> v.n = 1
      [] v.t = "arr" -> v.a # <<>>
      [] v.t = "obj" -> DOMAIN v.d # {}

\* str(v); repr(v) when quoted (items of a list).  The repr of a non-empty
\* dict depends on insertion order and is outside the modelled inputs.
RECURSIVE PyText(_, _)
PyText(v, quoted) ==
    CASE v.t = "null" -> <<"N", "o", "n", "e">>
      [] v.t = "str" -> IF quoted THEN <<"'">> \o v.s \o <<"'">> ELSE v.s
      [] v.t = "num" -> Digits(v.n)
      [] v.t = "bool" -> IF v.n = 1 THEN <<"T", "r", "u", "e">>
                                     ELSE <<"F", "a", "l", "s", "e">>
      [] v.t = "arr" ->
           <<"[">> \o Join([i \in 1..Len(v.a) |-> PyText(v.a[i], TRUE)], <<",", " ">>)
                  \o <<"]">>
      [] v.t = "obj" /\ DOMAIN v.d = {} -> <<"{", "}">>

PyStr(v) == PyText(v, FALSE)

(* ---------------------------- json.loads ------------------------------ *)
\* A recursive-descent parse of the JSON grammar over objects, arrays,
\* strings without escapes, natural numbers and the three literals.
ParseFail == [ok |-> FALSE, v |-> JNull, rest |-> <<>>]
ParseOk(v, rest) == [ok |-> TRUE, v |-> v, rest |-> rest]

\* index of the first occurrence of character c in s, 0 when there is none
IndexOf(s, c) ==
    IF \E i \in 1..Len(s) : s[i] = c
    THEN CHOOSE i \in 1..Len(s) : s[i] = c /\ \A j \in 1..(i - 1) : s[j] # c
    ELSE 0

\* s begins with a double quote
ParseString(s) ==
    LET close == IndexOf(Tail(s), "\"")
    IN IF close = 0 THEN ParseFail
       ELSE ParseOk(JStr(SubSeq(s, 2, close)), SubSeq(s, close + 2, Len(s)))

RECURSIVE NumberValue(_, _)
NumberValue(s, acc) ==
    IF s = <<>> \/ ~IsDigit(Head(s)) THEN [n |-> acc, rest |-> s]
    ELSE NumberValue(Tail(s), acc * 10 + DigitValue(Head(s)))

\* s begins with a digit; a leading 0 is a number on its own
ParseNumber(s) ==
    IF Head(s) = "0" THEN ParseOk(JNum(0), Tail(s))
    ELSE LET r == NumberValue(s, 0) IN ParseOk(JNum(r.n), r.rest)

t_null == <<"n", "u", "l", "l">>
t_true == <<"t", "r", "u", "e">>
t_false == <<"f", "a", "l", "s", "e">>

RECURSIVE ParseValue(_)
RECURSIVE ParseElements(_, _)
RECURSIVE ParseMembers(_, _)

\* after "[" or ",": one item, then "," or "]"
ParseElements(s, acc) ==
    LET r == ParseValue(LStrip(s))
        after == LStrip(r.rest)
    IN IF ~r.ok \/ after = <<>> THEN ParseFail
       ELSE IF Head(after) = "]" THEN ParseOk(JArr(Append(acc, r.v)), Tail(after))
       ELSE IF Head(after) = "," THEN ParseElements(Tail(after), Append(acc, r.v))
       ELSE ParseFail

\* after "{" or ",": "key" : value, then "," or "}"; a repeated key keeps
\* the last value
ParseMembers(s, d) ==
    LET t == LStrip(s)
        k == IF t # <<>> /\ Head(t) = "\"" THEN ParseString(t) ELSE ParseFail
        colon == LStrip(k.rest)
        r == IF k.ok /\ colon # <<>> /\ Head(colon) = ":"
             THEN ParseValue(LStrip(Tail(colon))) ELSE ParseFail
        after == LStrip(r.rest)
        d2 == [x \in DOMAIN d \cup {k.v.s} |-> IF x = k.v.s THEN r.v ELSE d[x]]
    IN IF ~r.ok \/ after = <<>> THEN ParseFail
       ELSE IF Head(after) = "}" THEN ParseOk(JObj(d2), Tail(after))
       ELSE IF Head(after) = "," THEN ParseMembers(Tail(after), d2)
       ELSE ParseFail

ParseValue(s) ==
    IF s = <<>> THEN ParseFail
    ELSE IF Head(s) = "{" THEN
        (IF LStrip(Tail(s)) # <<>> /\ Head(LStrip(Tail(s))) = "}"
         THEN ParseOk(JObj(<<>>), Tail(LStrip(Tail(s))))
         ELSE ParseMembers(Tail(s), <<>>))
    ELSE IF Head(s) = "[" THEN
        (IF LStrip(Tail(s)) # <<>> /\ Head(LStrip(Tail(s))) = "]"
         THEN ParseOk(JArr(<<>>), Tail(LStrip(Tail(s))))
         ELSE ParseElements(Tail(s), <<>>))
    ELSE IF Head(s) = "\"" THEN ParseString(s)
    ELSE IF IsDigit(Head(s)) THEN ParseNumber(s)
    ELSE IF StartsWith(s, t_null) THEN ParseOk(JNull, SubSeq(s, 5, Len(s)))
    ELSE IF StartsWith(s, t_true) THEN ParseOk(JBool(TRUE), SubSeq(s, 5, Len(s)))
    ELSE IF StartsWith(s, t_false) THEN ParseOk(JBool(FALSE), SubSeq(s, 6, Len(s)))
    ELSE ParseFail

\* json.loads(text): ok is FALSE where it raises JSONDecodeError
JsonLoads(text) ==
    LET r == ParseValue(LStrip(text))
    IN IF r.ok /\ LStrip(r.rest) = <<>> THEN [ok |-> TRUE, v |-> r.v]
       ELSE [ok |-> FALSE, v |-> JNull]

\* the clean-up without the replacement of single quotes
CleanQrData_NoQuotes(qr_data) ==
    Replace(Replace(Replace(Strip(qr_data),
        <<"N", "o", "n", "e">>, t_null),
        <<"T", "r", "u", "e">>, t_true),
        <<"F", "a", "l", "s", "e">>, t_false)

\* the "Clean the data" lines: strip, then the four replacements in order
CleanQrData(qr_data) ==
    Replace(Replace(Replace(Replace(Strip(qr_data),
        <<"'">>, <<"\"">>),
        <<"N", "o", "n", "e">>, t_null),
        <<"T", "r", "u", "e">>, t_true),
        <<"F", "a", "l", "s", "e">>, t_false)

(* ------------------------ payload keys (aliases) ---------------------- *)
k_fullName == <<"f", "u", "l", "l", "N", "a", "m", "e">>
k_full_name == <<"f", "u", "l", "l", "_", "n", "a", "m", "e">>
k_name == <<"n", "a", "m", "e">>
k_dateOfBirth == <<"d", "a", "t", "e", "O", "f", "B", "i", "r", "t", "h">>
k_dob == <<"d", "o", "b">>
k_birthDate == <<"b", "i", "r", "t", "h", "D", "a", "t", "e">>
k_sex == <<"s", "e", "x">>
k_gender == <<"g", "e", "n", "d", "e", "r">>
k_Sex == <<"S", "e", "x">>
k_nationalId == <<"n", "a", "t", "i", "o", "n", "a", "l", "I", "d">>
k_idNumber == <<"i", "d", "N", "u", "m", "b", "e", "r">>
k_FIN == <<"F", "I", "N">>
k_id == <<"i", "d">>
k_address == <<"a", "d", "d", "r", "e", "s", "s">>
k_residentialAddress == <<"r", "e", "s", "i", "d", "e", "n", "t", "i", "a", "l", "A", "d", "d", "r", "e", "s", "s">>
k_Address == <<"A", "d", "d", "r", "e", "s", "s">>
k_phone == <<"p", "h", "o", "n", "e">>
k_phoneNumber == <<"p", "h", "o", "n", "e", "N", "u", "m", "b", "e", "r">>
k_mobile == <<"m", "o", "b", "i", "l", "e">>
k_nationality == <<"n", "a", "t", "i", "o", "n", "a", "l", "i", "t", "y">>
k_expiryDate == <<"e", "x", "p", "i", "r", "y", "D", "a", "t", "e">>
k_dateOfExpiry == <<"d", "a", "t", "e", "O", "f", "E", "x", "p", "i", "r", "y">>
k_validUntil == <<"v", "a", "l", "i", "d", "U", "n", "t", "i", "l">>

NA == <<"N", "/", "A">>
Ethiopian == <<"E", "t", "h", "i", "o", "p", "i", "a", "n">>

\* the keys of the info dict, in the order of the dict literal
CanonicalKeys == {"name", "dob", "gender", "id_number", "address", "phone",
                  "nationality", "expiry"}

\* the data.get(...) chain of each info key, in source order
Aliases(key) ==
    CASE key = "name" -> <<k_fullName, k_full_name, k_name>>
      [] key = "dob" -> <<k_dateOfBirth, k_dob, k_birthDate>>
      [] key = "gender" -> <<k_sex, k_gender, k_Sex>>
      [] key = "id_number" -> <<k_nationalId, k_idNumber, k_FIN, k_id>>
      [] key = "address" -> <<k_address, k_residentialAddress, k_Address>>
      [] key = "phone" -> <<k_phone, k_phoneNumber, k_mobile>>
      [] key = "nationality" -> <<k_nationality>>
      [] key = "expiry" -> <<k_expiryDate, k_dateOfExpiry, k_validUntil>>

\* every chain ending in "N/A"
DefaultOf_AllNA(key) == NA

\* the last operand of each `or` chain
DefaultOf(key) == IF key = "nationality" THEN Ethiopian ELSE NA

\* dict.get(k): the value, or None when the key is absent
PyGet(d, k) == IF k \in DOMAIN d THEN d[k] ELSE JNull

\* a or b or ... or default: the first truthy operand, else the last one
\* the chain written with `is not None` tests instead of `or`
RECURSIVE OrChain_NonNull(_, _, _)
OrChain_NonNull(d, aliases, default) ==
    IF aliases = <<>> THEN JStr(default)
    ELSE IF PyGet(d, Head(aliases)).t # "null" THEN PyGet(d, Head(aliases))
    ELSE OrChain_NonNull(d, Tail(aliases), default)

\* (d is the dict's members)
RECURSIVE OrChain(_, _, _)
OrChain(d, aliases, default) ==
    IF aliases = <<>> THEN JStr(default)
    ELSE IF Truthy(PyGet(d, Head(aliases))) THEN PyGet(d, Head(aliases))
    ELSE OrChain(d, Tail(aliases), default)

\* the loop body without the str() conversion
CleanValue_NoStr(v) == IF v.t = "null" THEN JStr(NA) ELSE v

\* the "Clean up values" loop body
CleanValue(v) == IF v.t = "null" THEN JStr(NA) ELSE JStr(Strip(PyStr(v)))

\* the info dict of generate_fayda_id after the clean-up loop
BuildInfo(d) ==
    [key \in CanonicalKeys |-> CleanValue(OrChain(d, Aliases(key), DefaultOf(key)))]


(* ------------------------- program constants -------------------------- *)
\* if message.document.file_size > 20 * 1024 * 1024
MAX_FILE_SIZE == 20971520
\* photo.resize((300, 300)) and qr_image.resize((300, 300))
PASTE_SIZE == 300
\* if len(address) > 40 (render) / info['address'][:30] (root)
ADDRESS_LIMIT_RENDER == 40
ADDRESS_LIMIT_ROOT == 30

\* search_areas of generate_fayda_id (render), in list order
search_areas ==
    << <<1200, 700, 1650, 1150>>,
       <<1100, 650, 1550, 1100>>,
       <<1000, 600, 1450, 1050>>,
       <<800, 500, 1250, 950>> >>

\* methods of find_qr_code_in_image (root) for an image of size w x h
methods(w, h) ==
    << <<0, 0, w, h>>,
       <<w \div 2, h \div 2, w, h>>,
       <<w \div 2, 0, w, h \div 2>>,
       <<w \div 4, h \div 4, (w * 3) \div 4, (h * 3) \div 4>> >>

\* photo_crop_coords (render) and photo_areas (root)
photo_crop_coords == <<100, 250, 550, 850>>
photo_areas ==
    << <<100, 200, 400, 600>>, <<150, 250, 450, 650>>, <<200, 300, 500, 700>> >>

\* where generate_fayda_id places things on the template (both variants)
photo_position == <<80, 180>>
photo_resize == <<300, 300>>
qr_position == <<1100, 700>>
qr_resize == <<PASTE_SIZE, PASTE_SIZE>>
text_start_x == 400
text_start_y == 200
line_height == 50

\* Image.new('RGB', (1200, 1600)) of extract_image_from_pdf (root)
Placeholder == <<1200, 1600>>

\* sizes of the page rendered by page.get_pixmap(dpi=DPI) (render): an A4
\* page at 200 dpi and a small square page
PageSizes == {<<1654, 2339>>, <<1000, 1000>>}
NoPage == <<0, 0>>

\* the box has a pixel in common with the page
Intersects(area, size) ==
    area[1] < size[1] /\ area[2] < size[2] /\ area[3] > 0 /\ area[4] > 0

(* ------------------------------ inputs -------------------------------- *)
\* decoded QR texts
T_object ==
    <<"{", "\"", "n", "a", "m", "e", "\"", ":", " ", "\"", "A", "b", "\"", ",",
      " ", "\"", "i", "d", "\"", ":", " ", "7", "}">>
T_python ==
    <<" ", "{", "'", "s", "e", "x", "'", ":", " ", "'", "F", "'", ",", " ",
      "'", "d", "o", "b", "'", ":", " ", "N", "o", "n", "e", "}">>
T_array == <<"[", "1", "]">>
T_number == <<"7">>
T_string == <<"\"", "a", "\"">>
T_none == <<"N", "o", "n", "e">>
T_garbage == <<"Q", "R", ":", "1">>
T_empty == <<>>

PayloadTexts ==
    {T_object, T_python, T_array, T_number, T_string, T_none, T_garbage, T_empty}

\* the payloads of the two end-to-end scenarios of the specification:
\* {'fullName': 'Abebe Kebede', 'nationalId': '1234567890'}
T_abebe ==
    <<"{", "'", "f", "u", "l", "l", "N", "a", "m", "e", "'", ":", " ", "'",
      "A", "b", "e", "b", "e", " ", "K", "e", "b", "e", "d", "e", "'", ",",
      " ", "'", "n", "a", "t", "i", "o", "n", "a", "l", "I", "d", "'", ":",
      " ", "'", "1", "2", "3", "4", "5", "6", "7", "8", "9", "0", "'", "}">>
\* {"dateOfBirth": "1990-01-01", "sex": "Male"}
T_birth ==
    <<"{", "\"", "d", "a", "t", "e", "O", "f", "B", "i", "r", "t", "h",
      "\"", ":", " ", "\"", "1", "9", "9", "0", "-", "0", "1", "-", "0",
      "1", "\"", ",", " ", "\"", "s", "e", "x", "\"", ":", " ", "\"", "M",
      "a", "l", "e", "\"", "}">>

Abebe_Kebede == <<"A", "b", "e", "b", "e", " ", "K", "e", "b", "e", "d", "e">>
Id_1234567890 == <<"1", "2", "3", "4", "5", "6", "7", "8", "9", "0">>

\* an address of n characters, and the payload that carries it padded with
\* one blank on each side
AddressOf(n) == [i \in 1..n |-> IF i % 5 = 0 THEN "," ELSE "k"]
AddressPayload(n) ==
    <<"{", "\"">> \o k_address \o <<"\"", ":", " ", "\"", " ">> \o AddressOf(n)
        \o <<" ", "\"", "}">>

\* lengths around the two display limits
AddressLengths ==
    {ADDRESS_LIMIT_ROOT, ADDRESS_LIMIT_ROOT + 1, ADDRESS_LIMIT_RENDER,
     ADDRESS_LIMIT_RENDER + 1, ADDRESS_LIMIT_RENDER + 5}

ScenarioTexts == {T_abebe, T_birth} \cup {AddressPayload(n) : n \in AddressLengths}

\* valid JSON objects whose string values hold an apostrophe or one of the
\* words the clean-up replaces: {"name": "O'Neil"}, {"name": "True North"},
\* {"address": "None"}
T_apostrophe ==
    <<"{", "\"", "n", "a", "m", "e", "\"", ":", " ", "\"", "O", "'", "N", "e",
      "i", "l", "\"", "}">>
T_true_north ==
    <<"{", "\"", "n", "a", "m", "e", "\"", ":", " ", "\"", "T", "r", "u", "e",
      " ", "N", "o", "r", "t", "h", "\"", "}">>
T_address_none ==
    <<"{", "\"", "a", "d", "d", "r", "e", "s", "s", "\"", ":", " ", "\"", "N",
      "o", "n", "e", "\"", "}">>
JsonTexts == {T_apostrophe, T_true_north, T_address_none}

\* message.document.file_name
F_pdf == <<"a", ".", "p", "d", "f">>
F_PDF == <<"A", ".", "P", "D", "F">>
F_txt == <<"a", ".", "t", "x", "t">>
F_bare == <<"p", "d", "f">>
FileNames == {F_pdf, F_PDF, F_txt, F_bare}
FileSizes == {MAX_FILE_SIZE, MAX_FILE_SIZE + 1}
PdfKinds == {"valid", "invalid", "zero_pages"}

LowerChar(c) ==
    CASE c = "A" -> "a" [] c = "P" -> "p" [] c = "D" -> "d" [] c = "F" -> "f"
      [] OTHER -> c

\* str.lower()
Lower(s) == [i \in 1..Len(s) |-> LowerChar(s[i])]

\* str.endswith(suffix)
EndsWith(s, suffix) ==
    Len(s) >= Len(suffix) /\ SubSeq(s, Len(s) - Len(suffix) + 1, Len(s)) = suffix

DotPdf == <<".", "p", "d", "f">>


(* ------------------------------- state -------------------------------- *)
VARIABLES
    variant,    \* "render": src/fayda-bot-render/app.py, "root": src/app.py
    env,        \* the environment of the behaviour: whether handlers overlap,
                \* whether library and Telegram calls may raise, the QR texts
    clock,      \* datetime.now(), in whole seconds
    template,   \* the file at TEMPLATE_PATH: "missing", "partial" or "ok"
    writers,    \* the runs inside template.save(TEMPLATE_PATH)
    files,      \* the files of OUTPUT_DIR: [name, by, whole]
    pc,         \* where each invocation of handle_document stands
    h,          \* the message and the locals of handle_document
    g,          \* the arguments and locals of generate_fayda_id
    tools,      \* what create_coordinate_guide drew and /template reported
    ka          \* the process started as `python keep_alive.py`

vars == <<variant, env, clock, template, writers, files, pc, h, g, tools, ka>>

\* an output file name: f"fayda_id_{user_id}_{timestamp}.png"
FileName(user_id, timestamp) == <<user_id, timestamp>>
NoPath == <<0, 0>>

\* os.path.exists(path) for a path of OUTPUT_DIR
Exists(path) == \E f \in files : f.name = path

\* the position or size of something that was not placed
Nowhere == <<>>

\* the locals of generate_fayda_id before its first statement
G0 ==
    [pdf_bytes |-> "none", page |-> NoPage, blank |-> FALSE, photo |-> FALSE,
     probed |-> <<>>, qr_found |-> FALSE, qr_text |-> FALSE, qr_data |-> <<>>,
     qr_image |-> 0, data |-> JNull, info |-> <<>>, lines |-> <<>>,
     qr_pasted |-> FALSE, photo_at |-> Nowhere, photo_size |-> Nowhere,
     qr_at |-> Nowhere, qr_size |-> Nowhere, written |-> <<>>, ret_path |-> NoPath, ret_msg |-> ""]

\* the message before handle_document looks at it
H0 ==
    [user |-> 0, named |-> TRUE, file_name |-> <<>>, file_size |-> 0,
     status |-> "none", sent |-> <<>>, caption |-> <<>>]

\* the outcomes of a call that may raise: TRUE is the normal return
Outcomes == IF env.faults THEN BOOLEAN ELSE {TRUE}

(* ----------------------- returned messages ---------------------------- *)
MsgTemplate == "Failed to create template"
MsgNotFound ==
    IF variant = "render"
    THEN "QR code not found in PDF. Please ensure PDF contains a QR code."
    ELSE "QR code not found in PDF"
MsgInvalid ==
    IF variant = "render" THEN "Invalid QR code data format: "
    ELSE "Invalid QR code data: "
MsgProcessing == "Processing error: "

\* return path, info / return None, msg
Return(gr, path, msg) == [gr EXCEPT !.ret_path = path, !.ret_msg = msg]

\* the outer `except Exception` of generate_fayda_id
Caught(gr) == Return(gr, NoPath, MsgProcessing)


(* ------------------------ generate_fayda_id --------------------------- *)
Goto(r, label) == pc' = [pc EXCEPT ![r] = label]

\* generate_fayda_id returns to handle_document
ReturnTo(r, gr) == g' = [g EXCEPT ![r] = gr] /\ Goto(r, "hd_result")

\* if not os.path.exists(TEMPLATE_PATH)
gen_check_template(r) ==
    /\ pc[r] = "gen_start"
    /\ Goto(r, IF template = "missing" THEN "gen_create" ELSE "gen_load")
    /\ UNCHANGED <<ka, tools, variant, env, clock, template, writers, files, h, g>>

\* what generate_fayda_id does with the value of create_default_template():
\* render returns on False, root ignores it
CreateReturned(r, value) ==
    IF variant = "render" /\ ~value
    THEN ReturnTo(r, Return(g[r], NoPath, MsgTemplate))
    ELSE Goto(r, "gen_load") /\ UNCHANGED g

\* create_default_template up to the point where template.save has opened
\* (and truncated) the file, or an exception before that
create_default_template_begin(r) ==
    /\ pc[r] = "gen_create"
    /\ \E ok \in Outcomes :
         IF ok
         THEN /\ template' = "partial"
              /\ writers' = writers \cup {r}
              /\ Goto(r, "gen_creating")
              /\ UNCHANGED g
         ELSE /\ UNCHANGED <<template, writers>>
              /\ CreateReturned(r, FALSE)
    /\ UNCHANGED <<ka, tools, variant, env, clock, files, h>>

\* template.save finishes writing, or raises part-way
create_default_template_end(r) ==
    /\ pc[r] = "gen_creating"
    /\ writers' = writers \ {r}
    /\ \E ok \in Outcomes :
         IF ok
         THEN /\ template' = (IF writers' = {} THEN "ok" ELSE "partial")
              /\ CreateReturned(r, TRUE)
         ELSE /\ template' \in {"partial", "missing"}
              /\ CreateReturned(r, FALSE)
    /\ UNCHANGED <<ka, tools, variant, env, clock, files, h>>

\* Image.open(TEMPLATE_PATH): opens the file and reads its header
gen_open_template(r) ==
    /\ pc[r] = "gen_load"
    /\ \E ok \in (IF template = "missing" THEN {FALSE}
                  ELSE IF template = "partial" THEN BOOLEAN ELSE Outcomes) :
         IF ok THEN Goto(r, "gen_loading") /\ UNCHANGED g
         ELSE ReturnTo(r, Caught(g[r]))
    /\ UNCHANGED <<ka, tools, variant, env, clock, template, writers, files, h>>

\* .convert("RGB"): reads the pixel data of the opened file
gen_read_template(r) ==
    /\ pc[r] = "gen_loading"
    /\ \E ok \in (IF template = "ok" THEN Outcomes ELSE BOOLEAN) :
         IF ok THEN Goto(r, "gen_pdf") /\ UNCHANGED g
         ELSE ReturnTo(r, Caught(g[r]))
    /\ UNCHANGED <<ka, tools, variant, env, clock, template, writers, files, h>>

\* root: extract_image_from_pdf swallows every error of PdfReader and
\* returns the white placeholder image in all cases
extract_image_from_pdf(gr) == [gr EXCEPT !.page = Placeholder, !.blank = TRUE]

\* render: fitz.open, doc.load_page(0), page.get_pixmap, Image.frombytes
\* root: extract_image_from_pdf
gen_load_pdf(r) ==
    /\ pc[r] = "gen_pdf"
    /\ IF variant = "root"
       THEN /\ g' = [g EXCEPT ![r] = extract_image_from_pdf(@)]
            /\ Goto(r, "gen_photo")
       ELSE \E ok \in (IF g[r].pdf_bytes = "valid" THEN Outcomes ELSE {FALSE}) :
              IF ok
              THEN \E size \in PageSizes :
                     /\ g' = [g EXCEPT ![r].page = size]
                     /\ Goto(r, "gen_photo")
              ELSE ReturnTo(r, Caught(g[r]))
    /\ UNCHANGED <<ka, tools, variant, env, clock, template, writers, files, h>>

\* root: the box is tried only if it lies inside the image
InBounds(area, size) == area[3] <= size[1] /\ area[4] <= size[2]

\* photo = photo_crop.resize((300, 300)); template.paste(photo, (80, 180))
PastePhoto(gr) ==
    [gr EXCEPT !.photo = TRUE, !.photo_at = photo_position, !.photo_size = photo_resize]

\* the "EXTRACT PHOTO" block, a try/except of its own in both variants
gen_photo(r) ==
    /\ pc[r] = "gen_photo"
    /\ \E ok \in (IF variant = "render" THEN Outcomes
                  ELSE IF g[r].blank
                          \/ \A i \in 1..Len(photo_areas) : ~InBounds(photo_areas[i], g[r].page)
                       THEN {FALSE} ELSE BOOLEAN) :
         g' = [g EXCEPT ![r] = IF ok THEN PastePhoto(@) ELSE [@ EXCEPT !.photo = FALSE]]
    /\ Goto(r, "gen_search")
    /\ UNCHANGED <<ka, tools, variant, env, clock, template, writers, files, h>>

\* the boxes the search tries, in order
Areas(gr) ==
    IF variant = "render" THEN search_areas ELSE methods(gr.page[1], gr.page[2])

\* what crop + decode can give for one box: no symbol, an exception, or a
\* symbol with its text.  A blank image or a box off the page holds no code.
DecodeOutcomes(gr, area) ==
    {[kind |-> "none", text |-> <<>>]}
    \cup (IF env.faults THEN {[kind |-> "raise", text |-> <<>>]} ELSE {})
    \cup (IF gr.blank \/ ~Intersects(area, gr.page) THEN {}
          ELSE {[kind |-> "symbol", text |-> t] : t \in env.texts})

\* the body of the search loop for one box: crop, decode, and on a decoded
\* symbol take decoded[0].data and leave the loop
Probe(gr, i, out) ==
    LET tried == [gr EXCEPT !.probed = Append(@, [area |-> Areas(gr)[i],
                                                   kind |-> out.kind,
                                                   text |-> out.text])]
    IN IF out.kind = "symbol"
       THEN [tried EXCEPT !.qr_found = TRUE, !.qr_text = TRUE,
                          !.qr_data = out.text, !.qr_image = i]
       ELSE tried

\* the loop with an exception of crop or decode reaching the outer handler
gen_probe_RaiseAborts(r) ==
    /\ pc[r] = "gen_search"
    /\ LET i == Len(g[r].probed) + 1
       IN \E out \in DecodeOutcomes(g[r], Areas(g[r])[i]) :
            IF out.kind = "raise"
            THEN ReturnTo(r, Caught(Probe(g[r], i, out)))
            ELSE /\ g' = [g EXCEPT ![r] = Probe(@, i, out)]
                 /\ Goto(r, IF out.kind = "symbol" \/ i = Len(Areas(g[r]))
                            THEN "gen_found" ELSE "gen_search")
    /\ UNCHANGED <<ka, tools, variant, env, clock, template, writers, files, h>>

\* one iteration of `for area in search_areas` / `for ... in methods`
gen_probe(r) ==
    /\ pc[r] = "gen_search"
    /\ LET i == Len(g[r].probed) + 1
       IN \E out \in DecodeOutcomes(g[r], Areas(g[r])[i]) :
            /\ g' = [g EXCEPT ![r] = Probe(@, i, out)]
            /\ Goto(r, IF out.kind = "symbol" \/ i = Len(Areas(g[r]))
                       THEN "gen_found" ELSE "gen_search")
    /\ UNCHANGED <<ka, tools, variant, env, clock, template, writers, files, h>>

\* the test with its negation dropped
NotFound_Inverted(gr) == gr.qr_found

\* render: if not qr_found      root: if not qr_data
NotFound(gr) ==
    IF variant = "render" THEN ~gr.qr_found
    ELSE ~gr.qr_text \/ gr.qr_data = <<>>

gen_found(r) ==
    /\ pc[r] = "gen_found"
    /\ IF NotFound(g[r])
       THEN ReturnTo(r, Return(g[r], NoPath, MsgNotFound))
       ELSE Goto(r, "gen_parse") /\ UNCHANGED g
    /\ UNCHANGED <<ka, tools, variant, env, clock, template, writers, files, h>>

\* the "PARSE QR CODE DATA" try block: only JSONDecodeError is handled
ParseQr(gr) ==
    LET cleaned == CleanQrData(gr.qr_data)
        loaded == JsonLoads(cleaned)
    IN IF loaded.ok
       THEN [gr EXCEPT !.qr_data = cleaned, !.data = loaded.v]
       ELSE Return([gr EXCEPT !.qr_data = cleaned], NoPath, MsgInvalid)

gen_parse(r) ==
    /\ pc[r] = "gen_parse"
    /\ IF JsonLoads(CleanQrData(g[r].qr_data)).ok
       THEN g' = [g EXCEPT ![r] = ParseQr(@)] /\ Goto(r, "gen_info")
       ELSE ReturnTo(r, ParseQr(g[r]))
    /\ UNCHANGED <<ka, tools, variant, env, clock, template, writers, files, h>>

\* the info dict with the time of the run written into a field
ExtractInfo_Stamped(gr) ==
    IF gr.data.t = "obj"
    THEN [gr EXCEPT !.info = [BuildInfo(gr.data.d) EXCEPT
                                 !["expiry"] = JStr(Digits(clock))]]
    ELSE Caught(gr)

\* the info dict with the number of the matched box written into a field
ExtractInfo_LeakRegion(gr) ==
    IF gr.data.t = "obj"
    THEN [gr EXCEPT !.info = [BuildInfo(gr.data.d) EXCEPT
                                 !["address"] = JStr(Digits(gr.qr_image))]]
    ELSE Caught(gr)

\* the info dict and its clean-up loop; data.get raises AttributeError
\* when data is not a dict, which the outer handler catches
ExtractInfo(gr) ==
    IF gr.data.t = "obj" THEN [gr EXCEPT !.info = BuildInfo(gr.data.d)]
    ELSE Caught(gr)

gen_info(r) ==
    /\ pc[r] = "gen_info"
    /\ IF g[r].data.t = "obj"
       THEN g' = [g EXCEPT ![r] = ExtractInfo(@)] /\ Goto(r, "gen_text")
       ELSE ReturnTo(r, ExtractInfo(g[r]))
    /\ UNCHANGED <<ka, tools, variant, env, clock, template, writers, files, h>>


Ellipsis == <<".", ".", ".">>

\* s[:n]
Prefix(s, n) == SubSeq(s, 1, IF Len(s) < n THEN Len(s) ELSE n)

\* the address as drawn on the card
\* render: if len(address) > 40: address = address[:40] + "..."
\* root: info['address'][:30] + ('...' if len(info['address']) > 30 else '')
DrawnAddress(address) ==
    IF variant = "render"
    THEN (IF Len(address) > ADDRESS_LIMIT_RENDER
          THEN Prefix(address, ADDRESS_LIMIT_RENDER) \o Ellipsis ELSE address)
    ELSE Prefix(address, ADDRESS_LIMIT_ROOT)
         \o (IF Len(address) > ADDRESS_LIMIT_ROOT THEN Ellipsis ELSE <<>>)

\* the eight draw.text calls, in order: the label and the text after it
Lines(info) ==
    LET row(i, key, label, text) ==
            [key |-> key, label |-> label, text |-> text,
             at |-> <<text_start_x, text_start_y + line_height * (i - 1)>>]
    IN << row(1, "name", "", info["name"].s),
          row(2, "dob", "DOB: ", info["dob"].s),
          row(3, "gender", "Gender: ", info["gender"].s),
          row(4, "expiry", "Expiry: ", info["expiry"].s),
          row(5, "phone", "Phone: ", info["phone"].s),
          row(6, "nationality", "Nationality: ", info["nationality"].s),
          row(7, "address", "Address: ", DrawnAddress(info["address"].s)),
          row(8, "id_number", "ID: ", info["id_number"].s) >>

\* the text block with the truncated address stored back into info
AddText_TruncatesRecord(gr, drawn) ==
    [gr EXCEPT !.lines = SubSeq(Lines(gr.info), 1, drawn),
               !.info = [gr.info EXCEPT !["address"] = JStr(DrawnAddress(@.s))]]

\* the "ADD TEXT TO TEMPLATE" try block: the first exception ends the block,
\* drawn is the number of draw.text calls that returned before it
AddText(gr, drawn) == [gr EXCEPT !.lines = SubSeq(Lines(gr.info), 1, drawn)]

gen_text(r) ==
    /\ pc[r] = "gen_text"
    /\ \E drawn \in (IF env.faults THEN 0..Len(Lines(g[r].info))
                     ELSE {Len(Lines(g[r].info))}) :
         g' = [g EXCEPT ![r] = AddText(@, drawn)]
    /\ Goto(r, "gen_paste")
    /\ UNCHANGED <<ka, tools, variant, env, clock, template, writers, files, h>>

\* if qr_image: template.paste(qr_image.resize((300, 300)), ...), outside
\* any inner try
gen_paste(r) ==
    /\ pc[r] = "gen_paste"
    /\ \E ok \in Outcomes :
         IF ok
         THEN g' = [g EXCEPT ![r].qr_pasted = TRUE, ![r].qr_at = qr_position,
                             ![r].qr_size = qr_resize]
              /\ Goto(r, "gen_save")
         ELSE ReturnTo(r, Caught(g[r]))
    /\ UNCHANGED <<ka, tools, variant, env, clock, template, writers, files, h>>

\* open(path, "wb") and write: the file of that name now holds f
Put(fs, f) == {x \in fs : x.name # f.name} \cup {f}

\* output_path of a run for user_id at the time of the save
OutputPath(user_id, now) == FileName(user_id, now)

\* template.save(output_path, "PNG", optimize=True) returned
Saved(gr, r, path) == [gr EXCEPT !.written = Append(@, path)]

\* the "SAVE" block.  A save that raises leaves nothing or a partial file,
\* depending on where it raised.  root returns right after the save,
\* render goes on to doc.close().
gen_save(r) ==
    /\ pc[r] = "gen_save"
    /\ LET path == OutputPath(h[r].user, clock)
       IN \E ok \in Outcomes :
            IF ok
            THEN /\ files' = Put(files, [name |-> path, by |-> r, whole |-> TRUE])
                 /\ IF variant = "render"
                    THEN g' = [g EXCEPT ![r] = Saved(@, r, path)] /\ Goto(r, "gen_close")
                    ELSE ReturnTo(r, Return(Saved(g[r], r, path), path, ""))
            ELSE \E left \in BOOLEAN :
                   IF left
                   THEN /\ files' = Put(files, [name |-> path, by |-> r, whole |-> FALSE])
                        /\ ReturnTo(r, Caught(Saved(g[r], r, path)))
                   ELSE /\ UNCHANGED files
                        /\ ReturnTo(r, Caught(g[r]))
    /\ UNCHANGED <<ka, tools, variant, env, clock, template, writers, h>>

\* the path the run has saved to
LastWritten(gr) == gr.written[Len(gr.written)]

\* render: doc.close(), then return output_path, info
gen_close(r) ==
    /\ pc[r] = "gen_close"
    /\ \E ok \in Outcomes :
         IF ok THEN ReturnTo(r, Return(g[r], LastWritten(g[r]), ""))
         ELSE ReturnTo(r, Caught(g[r]))
    /\ UNCHANGED <<ka, tools, variant, env, clock, template, writers, files, h>>

(* -------------------------- handle_document --------------------------- *)
\* a Telegram update with a document arrives; handlers overlap only when
\* the environment runs them concurrently
Receive(r) ==
    /\ pc[r] = "idle"
    /\ r \in env.runs
    /\ \A q \in env.runs : q < r => pc[q] # "idle"
    /\ env.concurrent \/ \A q \in Runs \ {r} : pc[q] \in {"idle", "done", "raised"}
    /\ \E user \in Users, named \in (IF env.faults THEN BOOLEAN ELSE {TRUE}),
          name \in env.names, size \in env.sizes :
         h' = [h EXCEPT ![r].user = user,
                        ![r].named = named,
                        ![r].file_name = IF named THEN name ELSE <<>>,
                        ![r].file_size = size]
    /\ Goto(r, "hd_check")
    /\ UNCHANGED <<ka, tools, variant, env, clock, template, writers, files, g>>

\* message.document.file_name.lower().endswith('.pdf')
IsPdfName(name) == EndsWith(Lower(name), DotPdf)

\* message.document.file_size > 20 * 1024 * 1024
TooLarge(size) == size > MAX_FILE_SIZE

\* the handler raised inside its try block
Except(r) == Goto(r, "hd_except")

\* the two checks before the download, each with its rejection reply;
\* file_name of None raises AttributeError on .lower()
hd_check(r) ==
    /\ pc[r] = "hd_check"
    /\ IF ~h[r].named THEN Except(r) /\ UNCHANGED h
       ELSE IF ~IsPdfName(h[r].file_name) \/ TooLarge(h[r].file_size)
       THEN \E ok \in Outcomes :
              IF ok
              THEN /\ h' = [h EXCEPT ![r].sent =
                              Append(@, IF ~IsPdfName(h[r].file_name)
                                        THEN "not_pdf" ELSE "too_large")]
                   /\ Goto(r, "done")
              ELSE Except(r) /\ UNCHANGED h
       ELSE Goto(r, "hd_status") /\ UNCHANGED h
    /\ UNCHANGED <<ka, tools, variant, env, clock, template, writers, files, g>>

\* status_msg = bot.reply_to(message, "... Downloading your PDF...")
hd_status(r) ==
    /\ pc[r] = "hd_status"
    /\ \E ok \in Outcomes :
         IF ok
         THEN h' = [h EXCEPT ![r].status = "downloading"] /\ Goto(r, "hd_download")
         ELSE Except(r) /\ UNCHANGED h
    /\ UNCHANGED <<ka, tools, variant, env, clock, template, writers, files, g>>

\* bot.get_file and bot.download_file: the bytes are whatever was uploaded
hd_download(r) ==
    /\ pc[r] = "hd_download"
    /\ \E ok \in Outcomes :
         IF ok
         THEN \E kind \in env.pdfs :
                g' = [g EXCEPT ![r].pdf_bytes = kind] /\ Goto(r, "hd_edit")
         ELSE Except(r) /\ UNCHANGED g
    /\ UNCHANGED <<ka, tools, variant, env, clock, template, writers, files, h>>

\* bot.edit_message_text("Processing PDF..."), then the call of
\* generate_fayda_id(file_bytes, chat_id)
hd_edit(r) ==
    /\ pc[r] = "hd_edit"
    /\ \E ok \in Outcomes :
         IF ok
         THEN h' = [h EXCEPT ![r].status = "processing"] /\ Goto(r, "gen_start")
         ELSE Except(r) /\ UNCHANGED h
    /\ UNCHANGED <<ka, tools, variant, env, clock, template, writers, files, g>>

\* if output_path and os.path.exists(output_path)
hd_result(r) ==
    /\ pc[r] = "hd_result"
    /\ Goto(r, IF g[r].ret_path # NoPath /\ Exists(g[r].ret_path)
               THEN "hd_send" ELSE "hd_error")
    /\ UNCHANGED <<ka, tools, variant, env, clock, template, writers, files, h, g>>

\* the address line of the caption: info['address'][:30] followed by "..."
CaptionAddress(address) == Prefix(address, ADDRESS_LIMIT_ROOT) \o Ellipsis

\* with open(output_path, 'rb') as photo: bot.send_photo(...); open raises
\* when the file is gone; caption is the address line of the caption sent
hd_send(r) ==
    /\ pc[r] = "hd_send"
    /\ \E ok \in (IF Exists(g[r].ret_path) THEN Outcomes ELSE {FALSE}) :
         IF ok
         THEN /\ h' = [h EXCEPT ![r].sent = Append(@, "photo"),
                                 ![r].caption = CaptionAddress(g[r].info["address"].s)]
              /\ Goto(r, "hd_remove")
         ELSE Except(r) /\ UNCHANGED h
    /\ UNCHANGED <<ka, tools, variant, env, clock, template, writers, files, g>>

\* try: os.remove(output_path) except: pass
hd_remove(r) ==
    /\ pc[r] = "hd_remove"
    /\ \E ok \in Outcomes :
         files' = IF ok THEN {f \in files : f.name # g[r].ret_path} ELSE files
    /\ Goto(r, "hd_delete")
    /\ UNCHANGED <<ka, tools, variant, env, clock, template, writers, h, g>>

\* bot.delete_message(chat_id, status_msg.message_id)
hd_delete(r) ==
    /\ pc[r] = "hd_delete"
    /\ \E ok \in Outcomes :
         IF ok
         THEN /\ h' = [h EXCEPT ![r].status = "deleted"]
              /\ Goto(r, IF variant = "render" THEN "hd_finish" ELSE "done")
         ELSE Except(r) /\ UNCHANGED h
    /\ UNCHANGED <<ka, tools, variant, env, clock, template, writers, files, g>>

\* render only: bot.send_message(chat_id, "Done! ...")
hd_finish(r) ==
    /\ pc[r] = "hd_finish"
    /\ \E ok \in Outcomes :
         IF ok
         THEN h' = [h EXCEPT ![r].sent = Append(@, "done")] /\ Goto(r, "done")
         ELSE Except(r) /\ UNCHANGED h
    /\ UNCHANGED <<ka, tools, variant, env, clock, template, writers, files, g>>

\* bot.edit_message_text(error_msg, ...) with the reason returned
hd_error(r) ==
    /\ pc[r] = "hd_error"
    /\ \E ok \in Outcomes :
         IF ok
         THEN h' = [h EXCEPT ![r].status = "failed"] /\ Goto(r, "done")
         ELSE Except(r) /\ UNCHANGED h
    /\ UNCHANGED <<ka, tools, variant, env, clock, template, writers, files, g>>

\* except Exception as e: bot.reply_to(message, error_text); a raise in
\* the handler leaves handle_document
hd_except(r) ==
    /\ pc[r] = "hd_except"
    /\ \E ok \in Outcomes :
         IF ok
         THEN h' = [h EXCEPT ![r].sent = Append(@, "unexpected")] /\ Goto(r, "done")
         ELSE Goto(r, "raised") /\ UNCHANGED h
    /\ UNCHANGED <<ka, tools, variant, env, clock, template, writers, files, g>>

\* a second of wall-clock time passes
Tick ==
    /\ clock < MaxClock
    /\ clock' = clock + 1
    /\ UNCHANGED <<ka, tools, variant, env, template, writers, files, pc, h, g>>

(* ------------------ test_coordinates.py and /template ----------------- *)
\* nothing drawn and nothing reported yet
Tools0 ==
    [guide_ret |-> "none",
     guide |-> [photo_at |-> Nowhere, photo_size |-> Nowhere, qr_at |-> Nowhere,
                qr_size |-> Nowhere, line_height |-> 0, rows |-> <<>>],
     info_ret |-> "none",
     info |-> [photo_at |-> Nowhere, qr_at |-> Nowhere, text_start |-> Nowhere]]

\* text_fields of create_coordinate_guide, by the info key each label names:
\* "1. Full Name", "2. Date of Birth", "3. Gender", "4. Expiry Date",
\* "5. Phone Number", "6. Nationality", "7. Address", "8. FIN/ID Number"
text_fields ==
    <<"name", "dob", "gender", "expiry", "phone", "nationality", "address",
      "id_number">>

\* what create_coordinate_guide draws: the red photo rectangle, the blue
\* code rectangle and one green dot per text field, each labelled with its
\* coordinates
GuideMarks ==
    LET photo_x == 50
        photo_y == 150
        photo_width == 300
        photo_height == 300
        qr_x == 1100
        qr_y == 700
        qr_size == 300
        text_x == 400
        text_y_start == 200
        guide_line_height == 50
    IN [photo_at |-> <<photo_x, photo_y>>,
        photo_size |-> <<photo_width, photo_height>>,
        qr_at |-> <<qr_x, qr_y>>,
        qr_size |-> <<qr_size, qr_size>>,
        line_height |-> guide_line_height,
        rows |-> [i \in 1..Len(text_fields) |->
                    [key |-> text_fields[i],
                     at |-> <<text_x, text_y_start + (i - 1) * guide_line_height>>]]]

\* create_coordinate_guide: False when the template is missing or when
\* loading, drawing or saving raises, else the guide is saved
create_coordinate_guide ==
    /\ tools.guide_ret = "none"
    /\ \E ok \in (IF template = "missing" THEN {FALSE}
                  ELSE IF template = "partial" THEN BOOLEAN ELSE Outcomes) :
         tools' = IF ok THEN [tools EXCEPT !.guide_ret = "True", !.guide = GuideMarks]
                  ELSE [tools EXCEPT !.guide_ret = "False"]
    /\ UNCHANGED <<ka, variant, env, clock, template, writers, files, pc, h, g>>

\* the "Current coordinates" of the /template reply
template_info ==
    [photo_at |-> <<80, 180>>, qr_at |-> <<1100, 700>>, text_start |-> <<400, 200>>]

\* send_template_info: bot.send_message(message.chat.id, template_info)
send_template_info ==
    /\ variant = "render"
    /\ tools.info_ret = "none"
    /\ \E ok \in Outcomes :
         tools' = IF ok THEN [tools EXCEPT !.info_ret = "sent", !.info = template_info]
                  ELSE [tools EXCEPT !.info_ret = "raised"]
    /\ UNCHANGED <<ka, variant, env, clock, template, writers, files, pc, h, g>>

(* ---------------------------- keep_alive.py --------------------------- *)
\* time.sleep(600)
PING_INTERVAL == 600

\* the process before `python keep_alive.py` is started.  main is the main
\* thread, thread the keep_alive thread; attempts and requests count the
\* passes through the loop body and the requests.get calls, up to MaxPings
KA0 ==
    [RENDER |-> FALSE, RENDER_EXTERNAL_URL |-> FALSE, main |-> "off",
     thread |-> "none", flask |-> FALSE, attempts |-> 0, requests |-> 0,
     last |-> "none", sleep |-> 0]

\* the process has not ended
Alive == ka.main \in {"import", "main", "start_flask", "serving"}

Bump(n) == IF n < MaxPings THEN n + 1 ELSE n

\* line 10, `from app import app`, runs the app.py beside keep_alive.py.
\* src/app.py stops at `bot = telebot.TeleBot(BOT_TOKEN)` with a NameError,
\* since it only has `from telebot import TeleBot`; the render app.py
\* imports.
ka_import ==
    /\ ka.main = "import"
    /\ ka' = [ka EXCEPT !.main = IF variant = "root" THEN "NameError" ELSE "main"]
    /\ UNCHANGED <<tools, variant, env, clock, template, writers, files, pc, h, g>>

\* if os.environ.get('RENDER'): threading.Thread(target=keep_alive,
\* daemon=True).start()
ka_main ==
    /\ ka.main = "main"
    /\ ka' = [ka EXCEPT !.main = "start_flask",
                        !.thread = IF ka.RENDER THEN "try" ELSE "none"]
    /\ UNCHANGED <<tools, variant, env, clock, template, writers, files, pc, h, g>>

\* start_flask: app.run serves until the process ends, or raises (a port
\* that is not a number, a port in use); the daemon thread ends with the
\* process
ka_start_flask ==
    /\ ka.main = "start_flask"
    /\ \E ok \in Outcomes :
         ka' = IF ok THEN [ka EXCEPT !.main = "serving", !.flask = TRUE]
               ELSE [ka EXCEPT !.main = "exited",
                               !.thread = IF @ = "none" THEN "none" ELSE "dead"]
    /\ UNCHANGED <<tools, variant, env, clock, template, writers, files, pc, h, g>>

\* what one pass through the try block of keep_alive does
PingOutcomes ==
    IF ka.RENDER_EXTERNAL_URL
    THEN {"200", "not 200"} \cup (IF env.faults THEN {"raised"} ELSE {})
    ELSE {"no ping"}

\* the body of `while True` up to time.sleep
ka_ping ==
    /\ Alive
    /\ ka.thread = "try"
    /\ \E out \in PingOutcomes :
         ka' = [ka EXCEPT !.thread = "sleep", !.sleep = PING_INTERVAL,
                          !.attempts = Bump(@), !.last = out,
                          !.requests = IF ka.RENDER_EXTERNAL_URL THEN Bump(@) ELSE @]
    /\ UNCHANGED <<tools, variant, env, clock, template, writers, files, pc, h, g>>

\* time.sleep(600) returns
ka_wake ==
    /\ Alive
    /\ ka.thread = "sleep"
    /\ ka' = [ka EXCEPT !.thread = "try", !.sleep = 0]
    /\ UNCHANGED <<tools, variant, env, clock, template, writers, files, pc, h, g>>

(* --------------------------- specifications --------------------------- *)
Step(r) ==
    \/ Receive(r) \/ hd_check(r) \/ hd_status(r) \/ hd_download(r) \/ hd_edit(r)
    \/ gen_check_template(r) \/ create_default_template_begin(r)
    \/ create_default_template_end(r) \/ gen_open_template(r)
    \/ gen_read_template(r) \/ gen_load_pdf(r) \/ gen_photo(r) \/ gen_probe(r)
    \/ gen_found(r) \/ gen_parse(r) \/ gen_info(r) \/ gen_text(r) \/ gen_paste(r)
    \/ gen_save(r) \/ gen_close(r)
    \/ hd_result(r) \/ hd_send(r) \/ hd_remove(r) \/ hd_delete(r) \/ hd_finish(r)
    \/ hd_error(r) \/ hd_except(r)

Next == Tick \/ \E r \in Runs : Step(r)

\* one upload after the other, every call free to raise, every sample text
Init ==
    /\ variant \in {"render", "root"}
    /\ env = [runs |-> {1}, concurrent |-> FALSE, faults |-> TRUE,
              texts |-> PayloadTexts \cup {T_birth},
              names |-> FileNames, sizes |-> FileSizes, pdfs |-> PdfKinds]
    /\ clock = 1
    /\ template \in {"missing", "ok"}
    /\ writers = {}
    /\ files = {}
    /\ pc = [r \in Runs |-> "idle"]
    /\ h = [r \in Runs |-> H0]
    /\ g = [r \in Runs |-> G0]
    /\ tools = Tools0
    /\ ka = KA0

Spec == Init /\ [][Next]_vars


\* overlapping handlers (the webhook serves updates on several threads):
\* every upload is the same readable PDF, whose code holds one of two good
\* payloads, and no call raises on its own
InitConc ==
    /\ variant \in {"render", "root"}
    /\ \E code \in {T_object, T_python} :
         env = [runs |-> Runs, concurrent |-> TRUE, faults |-> FALSE,
                texts |-> {code}, names |-> {F_pdf},
                sizes |-> {MAX_FILE_SIZE}, pdfs |-> {"valid"}]
    /\ clock = 1
    /\ template \in {"missing", "ok"}
    /\ writers = {}
    /\ files = {}
    /\ pc = [r \in Runs |-> "idle"]
    /\ h = [r \in Runs |-> H0]
    /\ g = [r \in Runs |-> G0]
    /\ tools = Tools0
    /\ ka = KA0

SpecConc == InitConc /\ [][Next]_vars

(* ---------------- payload objects for the record checks --------------- *)
k_other == <<"x">>

\* every alias, in the order of the info dict literal, then an unknown key
AllKeys ==
    <<k_fullName, k_full_name, k_name, k_dateOfBirth, k_dob, k_birthDate,
      k_sex, k_gender, k_Sex, k_nationalId, k_idNumber, k_FIN, k_id,
      k_address, k_residentialAddress, k_Address, k_phone, k_phoneNumber,
      k_mobile, k_nationality, k_expiryDate, k_dateOfExpiry, k_validUntil,
      k_other>>

\* values a payload key may carry: null, empty, blank and padded strings,
\* zero and non-zero numbers, false, an empty list
SampleValues ==
    {JNull, JStr(<<>>), JStr(<<" ">>), JStr(<<" ", "B", " ">>),
     JNum(0), JNum(7), JBool(FALSE), JArr(<<>>)}

\* the JSON text of a sample value
ValueText(v) ==
    CASE v.t = "null" -> t_null
      [] v.t = "str" -> <<"\"">> \o v.s \o <<"\"">>
      [] v.t = "num" -> Digits(v.n)
      [] v.t = "bool" -> IF v.n = 1 THEN t_true ELSE t_false
      [] v.t = "arr" -> <<"[", "]">>

\* the JSON text of the object with members d, keys in the order of AllKeys
Serialize(d) ==
    LET present == SelectSeq(AllKeys, LAMBDA k : k \in DOMAIN d)
        member(k) == <<"\"">> \o k \o <<"\"", ":", " ">> \o ValueText(d[k])
    IN <<"{">> \o Join([i \in 1..Len(present) |-> member(present[i])], <<",", " ">>)
             \o <<"}">>

Range(seq) == {seq[i] : i \in 1..Len(seq)}

\* the objects that give at most MaxPresent of the keys a sample value
DictsOver(keys) ==
    UNION {[S -> SampleValues] : S \in {T \in SUBSET keys : Cardinality(T) <= MaxPresent}}

\* for one info key: objects over its aliases and the unknown key
RecordPayloads ==
    UNION {{Serialize(d) : d \in DictsOver(Range(Aliases(key)) \cup {k_other})} :
           key \in CanonicalKeys}

\* generate_fayda_id (render) right after the search took the text of the
\* first box; the upload came from user 1 at second 1 with the template in
\* place
AfterDecode(text) ==
    Probe(PastePhoto([G0 EXCEPT !.pdf_bytes = "valid", !.page = <<1654, 2339>>]),
          1, [kind |-> "symbol", text |-> text])

InitRecord ==
    /\ variant = "render"
    /\ env = [runs |-> {1}, concurrent |-> FALSE, faults |-> FALSE,
              texts |-> PayloadTexts,
              names |-> {F_pdf}, sizes |-> {MAX_FILE_SIZE}, pdfs |-> {"valid"}]
    /\ clock = 1
    /\ template = "ok"
    /\ writers = {}
    /\ files = {}
    /\ pc = [r \in Runs |-> IF r = 1 THEN "gen_found" ELSE "idle"]
    /\ h = [r \in Runs |->
              IF r = 1 THEN [H0 EXCEPT !.user = 1, !.file_name = F_pdf,
                                       !.file_size = MAX_FILE_SIZE,
                                       !.status = "processing"]
              ELSE H0]
    /\ \E text \in RecordPayloads \cup PayloadTexts \cup ScenarioTexts \cup JsonTexts :
         g = [r \in Runs |-> IF r = 1 THEN AfterDecode(text) ELSE G0]
    /\ tools = Tools0
    /\ ka = KA0

NextRecord ==
    \E r \in Runs :
       \/ gen_found(r) \/ gen_parse(r) \/ gen_info(r) \/ gen_text(r)
       \/ gen_paste(r) \/ gen_save(r) \/ gen_close(r)

SpecRecord == InitRecord /\ [][NextRecord]_vars

\* the placement tools next to one run of generate_fayda_id (render) that
\* has loaded the template and the page of a readable PDF; every call is
\* free to raise
InitGuide ==
    /\ variant = "render"
    /\ env = [runs |-> {1}, concurrent |-> FALSE, faults |-> TRUE,
              texts |-> {T_object},
              names |-> {F_pdf}, sizes |-> {MAX_FILE_SIZE}, pdfs |-> {"valid"}]
    /\ clock = 1
    /\ template \in {"missing", "ok"}
    /\ writers = {}
    /\ files = {}
    /\ pc = [r \in Runs |-> IF r = 1 THEN "gen_photo" ELSE "idle"]
    /\ h = [r \in Runs |->
              IF r = 1 THEN [H0 EXCEPT !.user = 1, !.file_name = F_pdf,
                                       !.file_size = MAX_FILE_SIZE,
                                       !.status = "processing"]
              ELSE H0]
    /\ g = [r \in Runs |->
              IF r = 1 THEN [G0 EXCEPT !.pdf_bytes = "valid", !.page = <<1654, 2339>>]
              ELSE G0]
    /\ tools = Tools0
    /\ ka = KA0

NextGuide ==
    \/ create_coordinate_guide
    \/ send_template_info
    \/ \E r \in Runs :
          \/ gen_photo(r) \/ gen_probe(r) \/ gen_found(r) \/ gen_parse(r)
          \/ gen_info(r) \/ gen_text(r) \/ gen_paste(r) \/ gen_save(r)
          \/ gen_close(r)

SpecGuide == InitGuide /\ [][NextGuide]_vars

\* `python keep_alive.py` with RENDER and RENDER_EXTERNAL_URL set or not,
\* beside either app.py; no upload arrives
InitKeepAlive ==
    /\ variant \in {"render", "root"}
    /\ \E faults \in BOOLEAN :
         env = [runs |-> {}, concurrent |-> FALSE, faults |-> faults,
                texts |-> {T_object},
                names |-> {F_pdf}, sizes |-> {MAX_FILE_SIZE}, pdfs |-> {"valid"}]
    /\ clock = 1
    /\ template \in {"missing", "ok"}
    /\ writers = {}
    /\ files = {}
    /\ pc = [r \in Runs |-> "idle"]
    /\ h = [r \in Runs |-> H0]
    /\ g = [r \in Runs |-> G0]
    /\ tools = Tools0
    /\ \E render, url \in BOOLEAN :
         ka = [KA0 EXCEPT !.RENDER = render, !.RENDER_EXTERNAL_URL = url,
                          !.main = "import"]

NextKeepAlive == ka_import \/ ka_main \/ ka_start_flask \/ ka_ping \/ ka_wake

\* every thread that can take a step is scheduled
FairKeepAlive ==
    /\ WF_vars(ka_import) /\ WF_vars(ka_main) /\ WF_vars(ka_start_flask)
    /\ WF_vars(ka_ping) /\ WF_vars(ka_wake)

SpecKeepAlive == InitKeepAlive /\ [][NextKeepAlive]_vars /\ FairKeepAlive


(* ============================== claims ================================ *)
\* generate_fayda_id of run r returned (output_path, info)
Succeeded(r) == g[r].ret_path # NoPath

\* C1: the record returned by a successful generate_fayda_id has exactly the
\* eight canonical keys and maps each of them to a string, whatever the types
\* of the payload's values.
C1_RecordComplete ==
    \A r \in Runs :
       Succeeded(r) =>
          /\ DOMAIN g[r].info = CanonicalKeys
          /\ \A key \in CanonicalKeys : g[r].info[key].t = "str"

\* a run succeeded on a payload object that carries a value that is no string
C1_Witness ==
    \E r \in Runs :
       /\ Succeeded(r)
       /\ \E k \in DOMAIN g[r].data.d : g[r].data.d[k].t \in {"num", "bool", "arr"}
       /\ \E k \in DOMAIN g[r].data.d : g[r].data.d[k].t = "null"

\* positions in the alias list of an info key whose payload value passes test
AliasesWith(d, key, test(_)) ==
    {i \in 1..Len(Aliases(key)) : Aliases(key)[i] \in DOMAIN d /\ test(d[Aliases(key)[i]])}

Least(S) == CHOOSE i \in S : \A j \in S : i <= j

\* the trimmed text of the value of the earliest alias that passes test, the
\* default of the key when none does
EarliestText(d, key, test(_)) ==
    IF AliasesWith(d, key, test) = {} THEN DefaultOf(key)
    ELSE Strip(PyStr(d[Aliases(key)[Least(AliasesWith(d, key, test))]]))

NonNull(v) == v.t # "null"

\* the info dict of run r has been built
HasInfo(r) == DOMAIN g[r].info = CanonicalKeys

\* C2 as stated: each record value is the value of the first alias present
\* with a non-null value (an empty string, 0 or false included), the default
\* only when no alias is present with a non-null value.
C2_FirstNonNull ==
    \A r \in Runs :
       HasInfo(r) =>
          \A key \in CanonicalKeys :
             g[r].info[key].s = EarliestText(g[r].data.d, key, NonNull)

\* C2 amended: each record value is the trimmed string form of the value of
\* the first alias, in alias order, whose value is truthy (present, not null,
\* and not an empty string, 0, false or an empty list); it is the default of
\* the key when no alias has a truthy value.
C2_FirstTruthy ==
    \A r \in Runs :
       HasInfo(r) =>
          \A key \in CanonicalKeys :
             g[r].info[key].s = EarliestText(g[r].data.d, key, Truthy)

\* a record was built from a payload in which, for some key, an earlier alias
\* is present with a falsy non-null value and a later alias is truthy
C2_Witness ==
    \E r \in Runs, key \in CanonicalKeys :
       /\ HasInfo(r)
       /\ AliasesWith(g[r].data.d, key, Truthy) # {}
       /\ Least(AliasesWith(g[r].data.d, key, NonNull))
            < Least(AliasesWith(g[r].data.d, key, Truthy))


\* the search of run r is over
SearchOver(r) ==
    pc[r] \notin {"idle", "hd_check", "hd_status", "hd_download", "hd_edit",
                  "gen_start", "gen_create", "gen_creating", "gen_load",
                  "gen_loading", "gen_pdf", "gen_photo", "gen_search"}
    /\ g[r].page # NoPage

\* the probe gave a symbol with non-empty text
HasText(probe) == probe.kind = "symbol" /\ probe.text # <<>>

\* C3 as stated: the boxes are probed in list order, the text returned is that
\* of the earliest box whose decode yields non-empty text, no box after it is
\* probed, and a symbol with empty text does not end the search (the search
\* ends early only on non-empty text).
C3_FirstNonEmptyText ==
    \A r \in Runs :
       SearchOver(r) =>
          LET probed == g[r].probed
              n == Len(probed)
          IN /\ \A i \in 1..n : probed[i].area = Areas(g[r])[i]
             /\ \A i \in 1..(n - 1) : ~HasText(probed[i])
             /\ IF n > 0 /\ HasText(probed[n])
                THEN g[r].qr_found /\ (pc[r] = "gen_found" => g[r].qr_data = probed[n].text)
                ELSE n = Len(Areas(g[r]))

\* every box was probed and none gave a symbol
NothingDecoded(r) ==
    /\ Len(g[r].probed) = Len(Areas(g[r]))
    /\ \A i \in 1..Len(g[r].probed) : g[r].probed[i].kind # "symbol"

\* C4: when no box of the page yields a decodable code, generate_fayda_id
\* returns (None, "QR code not found ...") and writes no file to OUTPUT_DIR.
C4_NotFoundNoCard ==
    \A r \in Runs :
       (SearchOver(r) /\ pc[r] # "gen_found" /\ NothingDecoded(r)) =>
          /\ g[r].ret_path = NoPath
          /\ g[r].ret_msg = MsgNotFound
          /\ g[r].written = <<>>
          /\ \A f \in files : f.by # r

\* a render run returned after all four boxes failed, one of them by raising
C4_Witness ==
    \E r \in Runs :
       /\ variant = "render"
       /\ pc[r] = "hd_result"
       /\ NothingDecoded(r)
       /\ \E i \in 1..Len(g[r].probed) : g[r].probed[i].kind = "raise"
       /\ \E i \in 1..Len(g[r].probed) : g[r].probed[i].kind = "none"

\* generate_fayda_id of run r has returned
Returned(r) ==
    pc[r] \in {"hd_result", "hd_send", "hd_remove", "hd_delete", "hd_finish",
               "hd_error"}
    \/ (pc[r] \in {"hd_except", "done", "raised"} /\ g[r].ret_msg # "")
    \/ (pc[r] \in {"hd_except", "done", "raised"} /\ g[r].ret_path # NoPath)

\* the text of run r went through the parse step and was no JSON object
NotAnObject(r) ==
    /\ Returned(r)
    /\ g[r].qr_found
    /\ ~NotFound(g[r])
    /\ LET loaded == JsonLoads(g[r].qr_data)
       IN ~loaded.ok \/ loaded.v.t # "obj"

\* C5 as stated: a payload that after the substitutions is not a JSON object
\* (unparseable, or an array, string, number or null) makes generate_fayda_id
\* return the 'Invalid QR code data' message and no card.
C5_PayloadFormatError ==
    \A r \in Runs :
       NotAnObject(r) =>
          /\ g[r].ret_msg = MsgInvalid
          /\ g[r].ret_path = NoPath
          /\ g[r].written = <<>>

\* C6 as stated: for bytes that are no valid PDF or have no page, the
\* loading step fails: no raster page exists, no box is probed, and the run
\* does not end with the code-not-found message.
C6_DocumentError ==
    \A r \in Runs :
       g[r].pdf_bytes \in {"invalid", "zero_pages"} =>
          /\ g[r].page = NoPage
          /\ g[r].probed = <<>>
          /\ g[r].ret_msg # MsgNotFound

\* C7 as stated: generate_fayda_id always returns (path, record) or
\* (None, message), and handle_document never propagates an exception.
C7_NoFaultEscapes ==
    \A r \in Runs :
       /\ pc[r] = "hd_result" =>
             \/ g[r].ret_path # NoPath /\ HasInfo(r) /\ g[r].ret_msg = ""
             \/ g[r].ret_path = NoPath /\ g[r].ret_msg # ""
       /\ pc[r] # "raised"

\* C8 as stated: two runs that each save a card write distinct file names.
C8_DistinctNames ==
    \A r1, r2 \in Runs :
       r1 # r2 =>
          \A i \in 1..Len(g[r1].written), j \in 1..Len(g[r2].written) :
             g[r1].written[i] # g[r2].written[j]

\* C9 as stated: no run is writing the template file while another run is
\* writing or reading it.
C9_NoTemplateRace ==
    \A r1, r2 \in Runs :
       r1 # r2 => ~(pc[r1] = "gen_creating" /\ pc[r2] \in {"gen_creating", "gen_loading"})

\* C10 as stated: a run writes at most one file, and when generate_fayda_id
\* returns, a file written by the run exists if and only if its path is the
\* one returned.
C10_FileIffReturned ==
    \A r \in Runs :
       /\ Len(g[r].written) <= 1
       /\ pc[r] = "hd_result" =>
             /\ \A f \in files : f.by = r => g[r].ret_path = f.name
             /\ g[r].ret_path # NoPath => \E f \in files : f.by = r /\ f.name = g[r].ret_path

\* handle_document of run r is over: it returned or let an exception out
HandlerOver(r) == pc[r] \in {"done", "raised"}

\* C11 as stated: when generate_fayda_id wrote a card file and handed its
\* path to handle_document, that file is gone from OUTPUT_DIR once
\* handle_document is over, whichever way the delivery went.
C11_CardDeleted ==
    \A r \in Runs :
       (HandlerOver(r) /\ Succeeded(r)) => \A f \in files : f.by # r

\* the text the search of run r took from the code it found
DecodedText(r) == g[r].probed[Len(g[r].probed)].text

\* generate_fayda_id of run r returned after decoding the given text
ReturnedFor(r, text) ==
    pc[r] = "hd_result" /\ g[r].qr_found /\ DecodedText(r) = text

\* C12 as stated: the payload {'fullName': 'Abebe Kebede', 'nationalId':
\* '1234567890'} gives a record with name "Abebe Kebede", id number
\* "1234567890" and "N/A" in each of the other six fields.
C12_AbebeOthersNA ==
    \A r \in Runs :
       ReturnedFor(r, T_abebe) =>
          /\ Succeeded(r)
          /\ g[r].info["name"].s = Abebe_Kebede
          /\ g[r].info["id_number"].s = Id_1234567890
          /\ \A key \in CanonicalKeys \ {"name", "id_number"} : g[r].info[key].s = NA

\* C12 amended: the same payload gives name "Abebe Kebede", id number
\* "1234567890", nationality "Ethiopian" and "N/A" in each of the other five
\* fields (dob, gender, address, phone, expiry).
C12_AbebeRecord ==
    \A r \in Runs :
       ReturnedFor(r, T_abebe) =>
          /\ Succeeded(r)
          /\ g[r].info["name"].s = Abebe_Kebede
          /\ g[r].info["id_number"].s = Id_1234567890
          /\ g[r].info["nationality"].s = Ethiopian
          /\ \A key \in {"dob", "gender", "address", "phone", "expiry"} :
                g[r].info[key].s = NA

\* a run returned a record for the single-quoted payload
C12_Witness ==
    \E r \in Runs : ReturnedFor(r, T_abebe) /\ Succeeded(r) /\ HasInfo(r)

\* the payload's value under the key nationality, None when it has none
SourceNationality(r) == PyGet(g[r].data.d, k_nationality)

\* C13 as stated: without a nationality key, or with null under it, the
\* record's nationality is "Ethiopian"; with any non-null value under it, the
\* record's nationality is that value as a string.
C13_NationalityNonNull ==
    \A r \in Runs :
       HasInfo(r) =>
          g[r].info["nationality"].s =
             IF NonNull(SourceNationality(r))
             THEN Strip(PyStr(SourceNationality(r))) ELSE Ethiopian

\* C13 amended: the record's nationality is "Ethiopian" when the key is
\* absent or its value is falsy (null, an empty string, 0, false, an empty
\* list), and the trimmed string form of the value otherwise.
C13_NationalityTruthy ==
    \A r \in Runs :
       HasInfo(r) =>
          g[r].info["nationality"].s =
             IF Truthy(SourceNationality(r))
             THEN Strip(PyStr(SourceNationality(r))) ELSE Ethiopian

\* a record was built from a payload whose nationality is present, not null,
\* and falsy
C13_Witness ==
    \E r \in Runs :
       /\ HasInfo(r)
       /\ k_nationality \in DOMAIN g[r].data.d
       /\ NonNull(SourceNationality(r))
       /\ ~Truthy(SourceNationality(r))
       /\ g[r].info["nationality"].s = Ethiopian

\* the record that the parse and build steps make of a decoded text
RecordOf(text) == BuildInfo(JsonLoads(CleanQrData(text)).v.d)

\* C14: the record is a function of the decoded text alone: whichever box
\* gave the decode, the record is the one the text determines, so neither the
\* index nor the coordinates of the box reach a field.
C14_RecordOfTextOnly ==
    \A r \in Runs :
       (pc[r] = "hd_result" /\ HasInfo(r)) => g[r].info = RecordOf(DecodedText(r))

\* the scenario of the claim: nothing decoded in the first two boxes, the
\* payload {"dateOfBirth": "1990-01-01", "sex": "Male"} decoded in the third
C14_Witness ==
    \E r \in Runs :
       /\ pc[r] = "hd_result"
       /\ Succeeded(r)
       /\ Len(g[r].probed) = 3
       /\ g[r].probed[1].kind = "none"
       /\ DecodedText(r) = T_birth
       /\ g[r].info = RecordOf(T_birth)

\* C15: two runs of generate_fayda_id on the same PDF bytes for the same
\* requester id that each return a record return equal records, whatever
\* the time of each run and whatever the earlier one left behind.
C15_SameRecordTwice ==
    \A r1, r2 \in Runs :
       (/\ Succeeded(r1) /\ Succeeded(r2)
        /\ g[r1].pdf_bytes = g[r2].pdf_bytes
        /\ h[r1].user = h[r2].user) => g[r1].info = g[r2].info

\* two runs for one requester returned records: one saved in an earlier
\* second than the other, and they took the decode from different boxes
C15_Witness ==
    \E r1, r2 \in Runs :
       /\ r1 # r2
       /\ Succeeded(r1) /\ Succeeded(r2)
       /\ h[r1].user = h[r2].user
       /\ LastWritten(g[r1])[2] < LastWritten(g[r2])[2]
       /\ g[r1].qr_image # g[r2].qr_image
       /\ g[r1].info = g[r2].info

\* the boxes a photo of run r can have been cropped from
PhotoBoxes ==
    IF variant = "render" THEN {photo_crop_coords}
    ELSE {photo_areas[i] : i \in 1..Len(photo_areas)}

\* C16 as stated: a box that reaches beyond the rasterized page is skipped:
\* every box that was cropped and handed to the decoder lies inside the page
\* (so on a 1000x1000 page (1200,700,1650,1150) is not among the boxes
\* probed), and a photo is only ever taken from a box inside the page.
C16_OutsideSkipped ==
    \A r \in Runs :
       /\ \A i \in 1..Len(g[r].probed) : InBounds(g[r].probed[i].area, g[r].page)
       /\ g[r].photo => \E box \in PhotoBoxes : InBounds(box, g[r].page)

\* the box that covers the whole page of run r
FullPage(r) == <<0, 0, g[r].page[1], g[r].page[2]>>

\* C17 as stated: for every rasterized page the list of boxes the search
\* goes through is non-empty and holds the full-page box, and a search that
\* ends without a code has probed the full page.
C17_FullPageFallback ==
    \A r \in Runs :
       g[r].page # NoPage =>
          /\ Len(Areas(g[r])) > 0
          /\ \E i \in 1..Len(Areas(g[r])) : Areas(g[r])[i] = FullPage(r)
          /\ (SearchOver(r) /\ ~g[r].qr_found) =>
                \E i \in 1..Len(g[r].probed) : g[r].probed[i].area = FullPage(r)

\* the text block of run r is over
TextDone(r) == HasInfo(r) /\ pc[r] # "gen_text"

\* the draw.text call for field j of run r returned
Drawn(r, j) == j <= Len(g[r].lines)

\* C18 as stated: when the draw of one field fails, every field after it is
\* still drawn (i is the field whose draw.text raised: the first one that
\* was not drawn).
C18_LaterFieldsDrawn ==
    \A r \in Runs :
       TextDone(r) =>
          \A i \in 1..Len(Lines(g[r].info)) :
             (~Drawn(r, i) /\ \A k \in 1..(i - 1) : Drawn(r, k)) =>
                \A j \in (i + 1)..Len(Lines(g[r].info)) : Drawn(r, j)

\* C19 as stated: once decode and parse have given a record, a failure in
\* the photo, font, text or code-paste steps does not end the run: a run that
\* returns without a card has got past the paste of the code crop, to the
\* save step.
C19_RenderFailureTolerated ==
    \A r \in Runs :
       (pc[r] = "hd_result" /\ HasInfo(r) /\ ~Succeeded(r)) => g[r].qr_pasted

\* C20: truncation is for the drawing only: when generate_fayda_id returns a
\* card, the record is the one built from the payload, no field changed by
\* the drawing, and its address is the full trimmed source value, however
\* long.
C20_AddressKept ==
    \A r \in Runs :
       (pc[r] = "hd_result" /\ Succeeded(r)) =>
          /\ g[r].info = BuildInfo(g[r].data.d)
          /\ g[r].info["address"].s = EarliestText(g[r].data.d, "address", Truthy)

\* a card was returned for an address longer than the display limit: the
\* line drawn is the cut address with "...", the record has all of it
C20_Witness ==
    \E r \in Runs :
       /\ pc[r] = "hd_result" /\ Succeeded(r)
       /\ g[r].info["address"].s = AddressOf(ADDRESS_LIMIT_RENDER + 5)
       /\ Len(g[r].lines) = Len(Lines(g[r].info))
       /\ g[r].lines[7].text = AddressOf(ADDRESS_LIMIT_RENDER) \o Ellipsis

\* C21: each box is cropped and decoded at most once per run, in list order
\* and without retry, and an exception in crop or decode of one box is
\* swallowed: the search goes on with the next box, so a search that ends
\* without a symbol has tried every box exactly once.
C21_OnceEachNoAbort ==
    \A r \in Runs :
       /\ Len(g[r].probed) <= Len(Areas(g[r]))
       /\ \A i \in 1..Len(g[r].probed) : g[r].probed[i].area = Areas(g[r])[i]
       /\ \A i, j \in 1..Len(g[r].probed) :
             g[r].probed[i].area = g[r].probed[j].area => i = j
       /\ SearchOver(r) =>
             \A i \in 1..Len(g[r].probed) :
                (g[r].probed[i].kind = "raise" /\ i < Len(Areas(g[r]))) =>
                   Len(g[r].probed) > i

\* a run in which crop or decode raised for the first box and a later box
\* gave the code the card was made from
C21_Witness ==
    \E r \in Runs :
       /\ Succeeded(r)
       /\ g[r].probed[1].kind = "raise"
       /\ g[r].probed[Len(g[r].probed)].kind = "symbol"

\* an address as the claim says it is displayed for a given limit
Shown(address, limit) ==
    IF Len(address) <= limit THEN address ELSE Prefix(address, limit) \o Ellipsis

\* the limit of the card text, 40 or 30 by variant
CardLimit == IF variant = "render" THEN ADDRESS_LIMIT_RENDER ELSE ADDRESS_LIMIT_ROOT

\* the address line was drawn on the card of run r
AddressDrawn(r) == HasInfo(r) /\ Len(g[r].lines) >= 7

\* C22 as stated: on the card and in the caption, an address within the
\* limit is shown in full without "...", a longer one as its first
\* characters up to the limit followed by "...".
C22_AddressDisplay ==
    \A r \in Runs :
       /\ AddressDrawn(r) =>
             g[r].lines[7].text = Shown(g[r].info["address"].s, CardLimit)
       /\ h[r].caption # <<>> =>
             h[r].caption = Shown(g[r].info["address"].s, ADDRESS_LIMIT_ROOT)

\* the card half of C22 alone
CardAddressDisplay ==
    \A r \in Runs :
       AddressDrawn(r) => g[r].lines[7].text = Shown(g[r].info["address"].s, CardLimit)

\* json.loads of the trimmed text, with no substitution
PlainLoad(text) == JsonLoads(Strip(text))

\* C24 as stated: for a decoded text that is a valid JSON object as it
\* stands, generate_fayda_id builds the record that parsing the trimmed text
\* without the substitutions gives, also when a string value holds an
\* apostrophe or the letters None, True or False.
C24_ValidJsonPreserved ==
    \A r \in Runs :
       (/\ pc[r] = "hd_result" /\ g[r].qr_found
        /\ PlainLoad(DecodedText(r)).ok
        /\ PlainLoad(DecodedText(r)).v.t = "obj") =>
          /\ HasInfo(r)
          /\ g[r].info = BuildInfo(PlainLoad(DecodedText(r)).v.d)

\* the upload of run r passes the two checks of handle_document
Accepted(r) ==
    h[r].named /\ IsPdfName(h[r].file_name) /\ ~TooLarge(h[r].file_size)

\* handle_document of run r has looked at an upload that fails a check
Rejected(r) == pc[r] # "idle" /\ ~Accepted(r)

\* nothing was downloaded, generate_fayda_id was not called, no file written
Untouched(r) == g[r] = G0 /\ \A f \in files : f.by # r

\* the safety half of C25: an upload is downloaded and processed only if it
\* passes both checks
OnlyAcceptedProcessed == \A r \in Runs : Rejected(r) => Untouched(r)

\* C25 as stated: an upload is downloaded and processed only if its name
\* ends in .pdf (in any case) and its size is at most 20 MB; otherwise
\* handle_document sends one rejection reply and does no download, no call
\* of generate_fayda_id and no file write.
C25_RejectedUntouched ==
    \A r \in Runs :
       Rejected(r) =>
          /\ Untouched(r)
          /\ HandlerOver(r) =>
                \/ h[r].sent = <<"not_pdf">>
                \/ h[r].sent = <<"too_large">>

\* message m was sent to the user of run r
Sent(r, m) == \E i \in 1..Len(h[r].sent) : h[r].sent[i] = m

\* C26 as stated: an upload that passes the checks ends with a visible
\* outcome: the card photo sent and the status message deleted, or the
\* status message edited to the failure reason, or a reply with the text
\* of the exception.
C26_TerminalOutcome ==
    \A r \in Runs :
       (Accepted(r) /\ HandlerOver(r)) =>
          \/ Sent(r, "photo") /\ h[r].status = "deleted"
          \/ h[r].status = "failed"
          \/ Sent(r, "unexpected")

\* create_default_template of run r reports failure in this step: it raised
\* before template.save opened the file, or template.save raised part-way
\* (with one writer a completed save leaves the template "ok")
CreateFails(r) ==
    \/ pc[r] = "gen_create" /\ pc'[r] # "gen_create" /\ pc'[r] # "gen_creating"
    \/ pc[r] = "gen_creating" /\ pc'[r] # "gen_creating" /\ template' # "ok"

\* C27 as stated: with the template file missing, generate_fayda_id calls
\* create_default_template before loading the template, and when that
\* reports failure the run returns (None, 'Failed to create template')
\* with no PDF opened, no box probed and no output file written.
C27_CreateFailureReturned ==
    [][\A r \in Runs :
         /\ (pc[r] = "gen_start" /\ pc'[r] # "gen_start" /\ template = "missing")
               => pc'[r] = "gen_create"
         /\ CreateFails(r) =>
               /\ pc'[r] = "hd_result"
               /\ g'[r].ret_path = NoPath
               /\ g'[r].ret_msg = MsgTemplate
               /\ g'[r].page = NoPage
               /\ g'[r].probed = <<>>
               /\ g'[r].written = <<>>]_vars

\* the same for render alone
C27_RenderCreateFailure ==
    [][\A r \in Runs :
         (variant = "render" /\ CreateFails(r)) =>
               /\ pc'[r] = "hd_result"
               /\ g'[r].ret_path = NoPath
               /\ g'[r].ret_msg = MsgTemplate
               /\ g'[r].page = NoPage
               /\ g'[r].probed = <<>>
               /\ g'[r].written = <<>>]_vars

\* the guide has been saved / the /template reply has been sent
GuideDrawn == tools.guide_ret = "True"
InfoSent == tools.info_ret = "sent"

\* C23 as stated: what create_coordinate_guide shows and what /template
\* reports is what generate_fayda_id does: the photo position, the code
\* position and size, the text start, the line height and the order of the
\* eight rows agree wherever two of the three places state them.
C23_SamePlacement ==
    \A r \in Runs :
       /\ (g[r].photo /\ GuideDrawn) => tools.guide.photo_at = g[r].photo_at
       /\ (g[r].photo /\ InfoSent) => tools.info.photo_at = g[r].photo_at
       /\ (GuideDrawn /\ InfoSent) => tools.guide.photo_at = tools.info.photo_at
       /\ (g[r].qr_pasted /\ GuideDrawn) =>
             tools.guide.qr_at = g[r].qr_at /\ tools.guide.qr_size = g[r].qr_size
       /\ (g[r].qr_pasted /\ InfoSent) => tools.info.qr_at = g[r].qr_at
       /\ \A j \in 1..Len(g[r].lines) :
             /\ GuideDrawn =>
                   /\ tools.guide.rows[j].key = g[r].lines[j].key
                   /\ tools.guide.rows[j].at = g[r].lines[j].at
                   /\ j > 1 => g[r].lines[j].at[2] - g[r].lines[j - 1].at[2]
                                  = tools.guide.line_height
             /\ (InfoSent /\ j = 1) => tools.info.text_start = g[r].lines[j].at

\* the same without the photo position of the guide: the photo size, the
\* code position and size, the text start, the line height and the row
\* order agree in the places that state them, and /template reports the
\* photo position generate_fayda_id uses
PlacementButGuidePhoto ==
    \A r \in Runs :
       /\ (g[r].photo /\ GuideDrawn) => tools.guide.photo_size = g[r].photo_size
       /\ (g[r].photo /\ InfoSent) => tools.info.photo_at = g[r].photo_at
       /\ (g[r].qr_pasted /\ GuideDrawn) =>
             tools.guide.qr_at = g[r].qr_at /\ tools.guide.qr_size = g[r].qr_size
       /\ (g[r].qr_pasted /\ InfoSent) => tools.info.qr_at = g[r].qr_at
       /\ GuideDrawn => Len(tools.guide.rows) = 8
       /\ \A j \in 1..Len(g[r].lines) :
             /\ GuideDrawn =>
                   /\ tools.guide.rows[j].key = g[r].lines[j].key
                   /\ tools.guide.rows[j].at = g[r].lines[j].at
                   /\ j > 1 => g[r].lines[j].at[2] - g[r].lines[j - 1].at[2]
                                  = tools.guide.line_height
             /\ (InfoSent /\ j = 1) => tools.info.text_start = g[r].lines[j].at

\* the keep_alive thread stands at the head of the loop body infinitely often
PingsForever == []<>(ka.thread = "try") /\ []<>(ka.thread = "sleep")

\* C28 as stated: started as `python keep_alive.py`, the process starts the
\* Flask app whether RENDER is set or not, starts the keep_alive thread only
\* when RENDER is set, and the thread then makes a ping attempt, sleeps 600
\* seconds and repeats without end whatever the attempts give; a request is
\* sent only when RENDER_EXTERNAL_URL is set.  Stated for the processes in
\* which no library call raises.
C28_KeepsPinging ==
    ~env.faults =>
       /\ <>ka.flask
       /\ [](ka.thread # "none" => ka.RENDER)
       /\ [](ka.requests > 0 => ka.RENDER_EXTERNAL_URL)
       /\ [](ka.thread = "sleep" => ka.sleep = PING_INTERVAL)
       /\ (ka.RENDER => PingsForever)

\* the same for a process whose import succeeds and whose Flask app serves
KeepsPingingWhileServing ==
    <>(ka.main = "serving") =>
       /\ [](ka.thread # "none" => ka.RENDER)
       /\ [](ka.requests > 0 => ka.RENDER_EXTERNAL_URL)
       /\ [](ka.thread = "sleep" => ka.sleep = PING_INTERVAL)
       /\ (ka.RENDER => PingsForever)

\* the import of src/app.py ends the process before anything is started
ImportEndsProcess ==
    [](ka.main = "NameError" => ~ka.flask /\ ka.thread = "none" /\ ka.attempts = 0)

====
